---- MODULE Spec2Model ----
(***************************************************************************)
(* Campaign Metrics Dashboard (src/campaign_local.py).                     *)
(*                                                                         *)
(* The script is re-run from top to bottom on every user interaction: an   *)
(* upload or a change of a sidebar control.  One run ("pass") reads the    *)
(* uploaded table, derives row-level fields, aggregates per "Sku Id",      *)
(* applies the sidebar filters and renders KPI cards, a table and two      *)
(* charts; any exception ends the pass in the top-level error handler.     *)
(*                                                                         *)
(* Numbers.  pandas holds the numeric columns as float64, and Python's     *)
(* float is the same type.  The model holds every numeric cell as a        *)
(* float64 and computes every sum, product, quotient, comparison, rounding *)
(* and conversion from and to text as IEEE 754 does: each operation gives  *)
(* the double nearest to the exact result, ties to even.  A missing cell   *)
(* of the upload is NaN, as pandas reads it.  (A column without a missing  *)
(* cell and without a decimal point is int64 in pandas; its values and     *)
(* sums are the same numbers as long as they stay below 2^53.)             *)
(***************************************************************************)
EXTENDS Integers, Sequences, FiniteSets, TLC

----------------------------------------------------------------------------
(* Natural numbers of any size: the sequence of the digits in base 2^15,   *)
(* least significant first, without leading zeros; 0 is <<>>.  (TLC's      *)
(* integers have 32 bits; a float64 significand has 53.)                   *)

Base == 32768

Abs(a) == IF a < 0 THEN -a ELSE a

Max(a, b) == IF a < b THEN b ELSE a

Min(a, b) == IF a < b THEN a ELSE b

RECURSIVE Pow2(_)
Pow2(k) == IF k = 0 THEN 1 ELSE 2 * Pow2(k - 1)

RECURSIVE BNat(_)
BNat(n) == IF n = 0 THEN <<>> ELSE <<n % Base>> \o BNat(n \div Base)

RECURSIVE BTrim(_)
BTrim(a) ==
    IF a # <<>> /\ a[Len(a)] = 0 THEN BTrim(SubSeq(a, 1, Len(a) - 1)) ELSE a

LimbAt(a, i) == IF i <= Len(a) THEN a[i] ELSE 0

\* The sign of a - b, for two numbers of the same length, from digit i down.
RECURSIVE BCmpAt(_, _, _)
BCmpAt(a, b, i) ==
    IF i = 0 THEN 0
    ELSE IF a[i] < b[i] THEN -1
    ELSE IF a[i] > b[i] THEN 1
    ELSE BCmpAt(a, b, i - 1)

BCmp(a, b) ==
    IF Len(a) < Len(b) THEN -1
    ELSE IF Len(a) > Len(b) THEN 1
    ELSE BCmpAt(a, b, Len(a))

\* The digits of a + b + carry from digit i on.
RECURSIVE BAddAt(_, _, _, _)
BAddAt(a, b, i, carry) ==
    IF i > Len(a) /\ i > Len(b) THEN (IF carry = 0 THEN <<>> ELSE <<carry>>)
    ELSE <<(LimbAt(a, i) + LimbAt(b, i) + carry) % Base>>
         \o BAddAt(a, b, i + 1, (LimbAt(a, i) + LimbAt(b, i) + carry) \div Base)

BAdd(a, b) == BAddAt(a, b, 1, 0)

\* The digits of a - b - borrow from digit i on, a >= b.
RECURSIVE BSubAt(_, _, _, _)
BSubAt(a, b, i, borrow) ==
    IF i > Len(a) THEN <<>>
    ELSE <<(a[i] - LimbAt(b, i) - borrow + Base) % Base>>
         \o BSubAt(a, b, i + 1, IF a[i] - LimbAt(b, i) - borrow < 0 THEN 1 ELSE 0)

BSub(a, b) == BTrim(BSubAt(a, b, 1, 0))

\* The digits of a * k + carry from digit i on, 0 < k < Base.
RECURSIVE BMulSmallAt(_, _, _, _)
BMulSmallAt(a, k, i, carry) ==
    IF i > Len(a) THEN (IF carry = 0 THEN <<>> ELSE <<carry>>)
    ELSE <<(a[i] * k + carry) % Base>>
         \o BMulSmallAt(a, k, i + 1, (a[i] * k + carry) \div Base)

RECURSIVE BMul(_, _)
BMul(a, b) ==
    IF a = <<>> \/ b = <<>> THEN <<>>
    ELSE BAdd(BMulSmallAt(a, b[1], 1, 0),
              IF Len(b) = 1 THEN <<>> ELSE <<0>> \o BMul(a, Tail(b)))

\* a * 2^n.
BShl(a, n) ==
    IF a = <<>> THEN <<>>
    ELSE [i \in 1..(n \div 15) |-> 0] \o BMulSmallAt(a, Pow2(n % 15), 1, 0)

\* <<quotient, remainder>> of a by k, 0 < k < Base: the digits from i down,
\* with the remainder r and the quotient q of the digits above.
RECURSIVE BDivSmallAt(_, _, _, _, _)
BDivSmallAt(a, k, i, r, q) ==
    IF i = 0 THEN <<BTrim(q), r>>
    ELSE BDivSmallAt(a, k, i - 1, (r * Base + a[i]) % k,
                     <<(r * Base + a[i]) \div k>> \o q)

\* floor(a / 2^n).
BShr(a, n) ==
    IF n \div 15 >= Len(a) THEN <<>>
    ELSE BDivSmallAt(SubSeq(a, n \div 15 + 1, Len(a)), Pow2(n % 15),
                     Len(a) - n \div 15, 0, <<>>)[1]

\* Bit n of a, bit 0 the least significant.
BBit(a, n) == (LimbAt(a, n \div 15 + 1) \div Pow2(n % 15)) % 2

\* The n lowest bits of a are all 0.
BLowZero(a, n) ==
    /\ \A i \in 1..Min(n \div 15, Len(a)) : a[i] = 0
    /\ LimbAt(a, n \div 15 + 1) % Pow2(n % 15) = 0

RECURSIVE NBits(_)
NBits(k) == IF k = 0 THEN 0 ELSE 1 + NBits(k \div 2)

\* The number of bits of a.
BBitLen(a) == IF a = <<>> THEN 0 ELSE 15 * (Len(a) - 1) + NBits(a[Len(a)])

RECURSIVE NTrailing(_)
NTrailing(k) == IF k % 2 = 1 THEN 0 ELSE 1 + NTrailing(k \div 2)

\* The number of 0 bits below the lowest 1 bit of a > 0, from digit i on.
RECURSIVE BTrailingZerosAt(_, _)
BTrailingZerosAt(a, i) ==
    IF a[i] = 0 THEN 15 + BTrailingZerosAt(a, i + 1) ELSE NTrailing(a[i])

\* Long division, for a divisor d of two digits or more whose highest digit
\* is at least Base / 2.  A quotient digit is estimated from the two highest
\* digits of the remainder r < d * Base and the highest of d; the estimate
\* is never too small and at most 2 too large.
RECURSIVE BDigitFix(_, _, _)
BDigitFix(r, d, digit) ==
    IF digit > 0 /\ BCmp(BMulSmallAt(d, digit, 1, 0), r) > 0
    THEN BDigitFix(r, d, digit - 1)
    ELSE digit

BDigit(r, d) ==
    BDigitFix(r, d,
              Min((LimbAt(r, Len(d) + 1) * Base + LimbAt(r, Len(d))) \div d[Len(d)],
                  Base - 1))

\* The digits of a from i down still to bring down, r the remainder and q
\* the quotient of the digits above; r1 is r with the next digit, and
\* digit the quotient's next.
RECURSIVE BDivLongAt(_, _, _, _, _)
BDivLongStep(a, d, i, r1, q, digit) ==
    BDivLongAt(a, d, i - 1,
               IF digit = 0 THEN r1 ELSE BSub(r1, BMulSmallAt(d, digit, 1, 0)),
               <<digit>> \o q)

BDivLongAt(a, d, i, r, q) ==
    IF i = 0 THEN <<BTrim(q), r>>
    ELSE BDivLongStep(a, d, i, BTrim(<<a[i]>> \o r), q,
                      BDigit(BTrim(<<a[i]>> \o r), d))

BothBig(qr) == <<qr[1], BNat(qr[2])>>

\* The remainder of a division whose operands were multiplied by 2^n.
Unscaled(qr, n) == <<qr[1], BShr(qr[2], n)>>

\* The digits of a above the Len(d) - 1 highest are less than d and start
\* the remainder.
BDivLong(a, d) ==
    IF Len(a) < Len(d) THEN <<<<>>, a>>
    ELSE BDivLongAt(a, d, Len(a) - Len(d) + 1,
                    SubSeq(a, Len(a) - Len(d) + 2, Len(a)), <<>>)

\* <<quotient, remainder>> of a by d > 0.
BDivMod(a, d) ==
    IF Len(d) = 1 THEN BothBig(BDivSmallAt(a, d[1], Len(a), 0, <<>>))
    ELSE Unscaled(BDivLong(BShl(a, 15 - NBits(d[Len(d)])),
                           BShl(d, 15 - NBits(d[Len(d)]))),
                  15 - NBits(d[Len(d)]))

----------------------------------------------------------------------------
(* float64.  A number is <<s, m, e>>: the value s * m * 2^e with the sign  *)
(* s in {1, -1}, m odd (so that equal values are equal tuples) and at most *)
(* 53 bits long; the zeros are <<1, <<>>, 0>> and <<-1, <<>>, 0>>, the     *)
(* infinities <<1, <<>>, 1>> and <<-1, <<>>, 1>>, and NaN is <<0, <<>>, 0>>.*)
(* Every operation rounds to the nearest double, ties to even.             *)

NaN == <<0, <<>>, 0>>
Inf == <<1, <<>>, 1>>
NegInf == <<-1, <<>>, 1>>

Zero(s) == <<s, <<>>, 0>>

IsNaN(x) == x[1] = 0
IsInf(x) == x[1] # 0 /\ x[2] = <<>> /\ x[3] = 1
IsSpecial(x) == IsNaN(x) \/ IsInf(x)
IsZero(x) == x[1] # 0 /\ x[2] = <<>> /\ x[3] = 0

\* m * 2^e with the 0 bits at the end of m > 0 moved into the exponent.
Canonical(s, m, e, zeros) == <<s, BShr(m, zeros), e + zeros>>

\* The double s * m * 2^e, m of at most 53 bits: 0, or an overflow to the
\* infinity, or the number itself.
Finite(s, m, e) ==
    IF m = <<>> THEN Zero(s)
    ELSE IF BBitLen(m) + e > 1024 THEN <<s, <<>>, 1>>
    ELSE Canonical(s, m, e, BTrailingZerosAt(m, 1))

\* floor(q / 2^drop) rounded to nearest, ties to even, on the bits dropped
\* and on whether something non-zero lies below q (sticky).
RoundedShift(q, drop, sticky) ==
    IF /\ BBit(q, drop - 1) = 1
       /\ sticky \/ ~BLowZero(q, drop - 1) \/ BBit(q, drop) = 1
    THEN BAddAt(BShr(q, drop), <<>>, 1, 1)
    ELSE BShr(q, drop)

\* The double nearest to s * (q + something in [0, 1)) * 2^e, where the
\* something is non-zero iff sticky; drop is the number of bits of q beyond
\* the 53 of a significand, or beyond the smallest subnormal 2^-1074.
RoundDrop(s, q, sticky, e, drop) ==
    IF drop <= 0 THEN Finite(s, q, e)
    ELSE Finite(s, RoundedShift(q, drop, sticky), e + drop)

RoundBits(s, q, sticky, e) ==
    RoundDrop(s, q, sticky, e, Max(BBitLen(q) - 53, -1074 - e))

\* The double nearest to s * (n / d) * 2^e, n > 0, d > 0: the quotient taken
\* to 55 or 56 bits, its remainder the sticky part; qr is <<quotient,
\* remainder>> of n * 2^shift by d.
RoundQuotient(s, qr, e) == RoundBits(s, qr[1], qr[2] # <<>>, e)

RoundShifted(s, n, d, e, shift) ==
    RoundQuotient(s,
                  IF shift >= 0 THEN BDivMod(BShl(n, shift), d)
                  ELSE BDivMod(n, BShl(d, -shift)),
                  e - shift)

RoundRatio(s, n, d, e) ==
    RoundShifted(s, n, d, e, 55 + BBitLen(d) - BBitLen(n))

\* The double of an integer.
Num(n) == Finite(IF n < 0 THEN -1 ELSE 1, BNat(Abs(n)), 0)

Neg(x) == <<-x[1], x[2], x[3]>>

\* The position of the highest bit of a finite non-zero x.
Top(x) == BBitLen(x[2]) + x[3]

\* The sign of |x| - |y|, x and y finite and non-zero.
CmpMagnitude(x, y) ==
    IF Top(x) < Top(y) THEN -1
    ELSE IF Top(x) > Top(y) THEN 1
    ELSE BCmp(BShl(x[2], x[3] - Min(x[3], y[3])),
              BShl(y[2], y[3] - Min(x[3], y[3])))

\* -1, 0, 1 as a finite x is negative, zero, positive.
SignOf(x) == IF x[2] = <<>> THEN 0 ELSE x[1]

\* The sign of x - y, neither of them NaN.
Cmp(x, y) ==
    IF IsInf(x) \/ IsInf(y)
    THEN (IF IsInf(x) /\ IsInf(y) THEN (x[1] - y[1]) \div 2
          ELSE IF IsInf(x) THEN x[1] ELSE -y[1])
    ELSE IF SignOf(x) # SignOf(y) THEN (IF SignOf(x) < SignOf(y) THEN -1 ELSE 1)
    ELSE IF SignOf(x) = 0 THEN 0
    ELSE SignOf(x) * CmpMagnitude(x, y)

\* Comparisons; every comparison with NaN is false.
Gt(x, y) == ~IsNaN(x) /\ ~IsNaN(y) /\ Cmp(x, y) > 0
Eq(x, y) == ~IsNaN(x) /\ ~IsNaN(y) /\ Cmp(x, y) = 0
Ge(x, y) == ~IsNaN(x) /\ ~IsNaN(y) /\ Cmp(x, y) >= 0
Lt(x, y) == Gt(y, x)
Le(x, y) == Ge(y, x)

\* x + y for finite non-zero x and y whose highest bits are at most 60
\* places apart; a and b are their significands at the common exponent e.
AddAligned(x, y, a, b, e) ==
    IF x[1] = y[1] THEN RoundBits(x[1], BAdd(a, b), FALSE, e)
    ELSE IF BCmp(a, b) = 0 THEN Zero(1)
    ELSE IF BCmp(a, b) > 0 THEN RoundBits(x[1], BSub(a, b), FALSE, e)
    ELSE RoundBits(y[1], BSub(b, a), FALSE, e)

\* x + y for finite non-zero x and y.  A term more than 60 binary places
\* below the other cannot move the rounded sum.
AddFinite(x, y) ==
    IF Top(x) - Top(y) > 60 THEN x
    ELSE IF Top(y) - Top(x) > 60 THEN y
    ELSE AddAligned(x, y, BShl(x[2], x[3] - Min(x[3], y[3])),
                    BShl(y[2], y[3] - Min(x[3], y[3])), Min(x[3], y[3]))

Add(x, y) ==
    IF IsNaN(x) \/ IsNaN(y) THEN NaN
    ELSE IF IsInf(x) THEN (IF IsInf(y) /\ x # y THEN NaN ELSE x)
    ELSE IF IsInf(y) THEN y
    ELSE IF IsZero(x) THEN (IF IsZero(y) /\ x # y THEN Zero(1) ELSE y)
    ELSE IF IsZero(y) THEN x
    ELSE AddFinite(x, y)

Sub(x, y) == Add(x, Neg(y))

Mul(x, y) ==
    IF IsNaN(x) \/ IsNaN(y) THEN NaN
    ELSE IF (IsInf(x) /\ IsZero(y)) \/ (IsZero(x) /\ IsInf(y)) THEN NaN
    ELSE IF IsInf(x) \/ IsInf(y) THEN <<x[1] * y[1], <<>>, 1>>
    ELSE IF IsZero(x) \/ IsZero(y) THEN Zero(x[1] * y[1])
    ELSE RoundBits(x[1] * y[1], BMul(x[2], y[2]), FALSE, x[3] + y[3])

\* float64 true division: x/0 is +-inf, 0/0 is NaN, never an exception.
Div(x, y) ==
    IF IsNaN(x) \/ IsNaN(y) THEN NaN
    ELSE IF (IsInf(x) /\ IsInf(y)) \/ (IsZero(x) /\ IsZero(y)) THEN NaN
    ELSE IF IsInf(x) \/ IsZero(y) THEN <<x[1] * y[1], <<>>, 1>>
    ELSE IF IsZero(x) \/ IsInf(y) THEN Zero(x[1] * y[1])
    ELSE RoundRatio(x[1] * y[1], x[2], y[2], x[3] - y[3])

\* numpy.rint: the nearest integer, ties to even; the sign stays.
Rint(x) ==
    IF IsSpecial(x) \/ x[3] >= 0 THEN x
    ELSE Finite(x[1], RoundedShift(x[2], -x[3], FALSE), 0)

\* The integer nearest to |x| * 100, ties to even, x finite: the digits
\* that "%.2f" shows.
Hundredths(x) ==
    IF x[3] >= 0 THEN BShl(BMulSmallAt(x[2], 100, 1, 0), x[3])
    ELSE RoundedShift(BMulSmallAt(x[2], 100, 1, 0), -x[3], FALSE)

\* floor(|x|), x finite: the digits of int(x).
Floor(x) == IF x[3] >= 0 THEN BShl(x[2], x[3]) ELSE BShr(x[2], -x[3])

\* Series.replace(old, new) on one cell: the cells equal to old.
Replace(x, old, new) == IF Eq(x, old) THEN new ELSE x

\* Series.replace([np.inf, -np.inf], 0) on one cell.
ReplaceInf(x) == IF IsInf(x) THEN Num(0) ELSE x

\* Series.round(2): numpy multiplies by 100, rounds to the nearest integer
\* and divides by 100, each step in float64; NaN and the infinities stay.
Round2(x) == Div(Rint(Mul(x, Num(100))), Num(100))

\* The group sums of groupby(...).sum(): pandas skips the null cells and
\* adds the others with Kahan's compensated summation; comp is the running
\* compensation, set back to 0 when it is NaN.  y is the cell less the
\* compensation, t the new sum and c the new compensation, (t - sumx) - y.
RECURSIVE KahanAt(_, _, _, _)
KahanNext(s, i, t, c) == KahanAt(s, i + 1, t, IF IsNaN(c) THEN Zero(1) ELSE c)

KahanStep(s, i, sumx, y, t) == KahanNext(s, i, t, Sub(Sub(t, sumx), y))

KahanAt(s, i, sumx, comp) ==
    IF i > Len(s) THEN sumx
    ELSE IF IsNaN(s[i]) THEN KahanAt(s, i + 1, sumx, comp)
    ELSE KahanStep(s, i, sumx, Sub(s[i], comp), Add(sumx, Sub(s[i], comp)))

GroupSumSkipNa(s) == KahanAt(s, 1, Zero(1), Zero(1))

\* Series.sum(): a NaN cell counts as 0.0, and numpy adds the cells from
\* left to right, starting from the first (pairwise only from 8 cells on);
\* the sum of no cell is 0.
NaNAsZero(x) == IF IsNaN(x) THEN Zero(1) ELSE x

RECURSIVE SumAt(_, _, _)
SumAt(s, i, acc) ==
    IF i > Len(s) THEN acc ELSE SumAt(s, i + 1, Add(acc, NaNAsZero(s[i])))

SumSkipNa(s) == IF s = <<>> THEN Zero(1) ELSE SumAt(s, 2, NaNAsZero(s[1]))

----------------------------------------------------------------------------
(* Numbers as text.  A text is the sequence of its Unicode code points.    *)

\* The four decimal digits of k < 10000.
Digits4(k) ==
    <<48 + (k \div 1000), 48 + ((k \div 100) % 10), 48 + ((k \div 10) % 10),
      48 + (k % 10)>>

\* The decimal digits of a, four at a time and so with up to three leading
\* zeros; qr is <<quotient, remainder>> of a by 10000.
RECURSIVE BDecimal(_)
BDecimalOf(qr) == BDecimal(qr[1]) \o Digits4(qr[2])

BDecimal(a) ==
    IF a = <<>> THEN <<>> ELSE BDecimalOf(BDivSmallAt(a, 10000, Len(a), 0, <<>>))

RECURSIVE StripZeros(_)
StripZeros(t) == IF Len(t) > 1 /\ t[1] = 48 THEN StripZeros(Tail(t)) ELSE t

IntText(a) == IF a = <<>> THEN <<48>> ELSE StripZeros(BDecimal(a))

\* The "," option of the format: a comma before every three digits.
RECURSIVE Grouped(_)
Grouped(t) ==
    IF Len(t) <= 3 THEN t
    ELSE Grouped(SubSeq(t, 1, Len(t) - 3)) \o <<44>> \o SubSeq(t, Len(t) - 2, Len(t))

\* f"{int(x):,}" of a finite x.
FormatInt(x) ==
    (IF x[1] < 0 /\ Floor(x) # <<>> THEN <<45>> ELSE <<>>) \o Grouped(IntText(Floor(x)))

\* The text of k hundredths; qr is <<quotient, remainder>> of k by 100.
HundredthsText(qr) ==
    IntText(qr[1]) \o <<46, 48 + (qr[2] \div 10), 48 + (qr[2] % 10)>>

\* f"{x:.2f}": the decimal of two places nearest to the double itself.
Format2(x) ==
    IF IsNaN(x) THEN <<110, 97, 110>>
    ELSE (IF x[1] < 0 THEN <<45>> ELSE <<>>)
         \o (IF IsInf(x) THEN <<105, 110, 102>>
             ELSE HundredthsText(BDivSmallAt(Hundredths(x), 100,
                                             Len(Hundredths(x)), 0, <<>>)))

\* f"{x:.2%}": x * 100 in float64, then as ".2f", then "%".
FormatPercent2(x) == Format2(Mul(x, Num(100))) \o <<37>>

----------------------------------------------------------------------------
(* The Condition Parser: the regular expression of apply_condition,       *)
(*   ^\s*(>=|<=|>|<|==|=)\s*(\d+(\.\d+)?)\s*$                              *)
(* on a text given as the sequence of its Unicode code points.  The        *)
(* pattern is a str pattern, so \s and \d are the Unicode classes.         *)

\* The code points of the digits zero: \d is the category Nd, whose members
\* come in runs of ten, zero to nine (48 is "0").
DigitZeros ==
    {48, 1632, 1776, 1984, 2406, 2534, 2662, 2790, 2918, 3046, 3174, 3302,
     3430, 3558, 3664, 3792, 3872, 4160, 4240, 6112, 6160, 6470, 6608, 6784,
     6800, 6992, 7088, 7232, 7248, 42528, 43216, 43264, 43472, 43504, 43600,
     44016, 65296, 66720, 68912, 69734, 69872, 69942, 70096, 70384, 70736,
     70864, 71248, 71360, 71472, 71904, 72016, 72784, 73040, 73120, 92768,
     92864, 93008, 120782, 120792, 120802, 120812, 120822, 123200, 123632,
     125264, 130032}

IsDigit(c) == \E z \in DigitZeros : c - z \in 0..9

\* The decimal value float() gives the digit.
DigitVal(c) == c - (CHOOSE z \in DigitZeros : c - z \in 0..9)

\* \s: tab to carriage return, the separators 28-31, space, next line,
\* no-break space and the Unicode space separators.
IsSpace(c) ==
    c \in (9..13) \cup (28..32) \cup {133, 160, 5760} \cup (8192..8202)
          \cup {8232, 8233, 8239, 8287, 12288}

\* The least member of a set of positions.
FirstOf(S) == CHOOSE k \in S : \A j \in S : k <= j

\* The first position at or after i that does not hold a whitespace.
SkipSpaces(s, i) ==
    FirstOf({k \in i..Len(s) : ~IsSpace(s[k])} \cup {Max(i, Len(s) + 1)})

\* The first position at or after i that does not hold a digit.
SkipDigits(s, i) ==
    FirstOf({k \in i..Len(s) : ~IsDigit(s[k])} \cup {Max(i, Len(s) + 1)})

\* The operator token at i, tried in the alternation's order; "" if none.
\* 60, 61, 62 are "<", "=", ">".
\* A two-character token ends in "=", so once it matches, the shorter
\* alternative can never let the rest (\s*\d) match: no backtracking.
OpAt(s, i) ==
    LET c1 == IF i <= Len(s) THEN s[i] ELSE 0
        c2 == IF i + 1 <= Len(s) THEN s[i + 1] ELSE 0
    IN IF c1 = 62 /\ c2 = 61 THEN ">="
       ELSE IF c1 = 60 /\ c2 = 61 THEN "<="
       ELSE IF c1 = 62 THEN ">"
       ELSE IF c1 = 60 THEN "<"
       ELSE IF c1 = 61 /\ c2 = 61 THEN "=="
       ELSE IF c1 = 61 THEN "="
       ELSE ""

OpLen(op) == IF op \in {">=", "<=", "=="} THEN 2 ELSE 1

\* The digits s[i..j-1] read as a decimal integer, four digits at a time.
RECURSIVE DigitsValue(_, _, _)
DigitsValue(s, i, j) ==
    IF j <= i THEN <<>>
    ELSE IF j - i < 4
    THEN BTrim(BMulSmallAt(DigitsValue(s, i, j - 1), 10, 1, DigitVal(s[j - 1])))
    ELSE BTrim(BMulSmallAt(DigitsValue(s, i, j - 4), 10000, 1,
                           1000 * DigitVal(s[j - 4]) + 100 * DigitVal(s[j - 3])
                           + 10 * DigitVal(s[j - 2]) + DigitVal(s[j - 1])))

RECURSIVE Pow10(_)
Pow10(k) ==
    IF k = 0 THEN <<1>>
    ELSE IF k < 4 THEN BMulSmallAt(Pow10(k - 1), 10, 1, 0)
    ELSE BMulSmallAt(Pow10(k - 4), 10000, 1, 0)

\* The most digits of the integer part of a double: the largest is
\* 1.8 * 10^308.
MaxDigits == 309

\* The number of digits of s[i..j-1] from its first digit other than 0.
Significant(s, i, j) ==
    Cardinality({k \in i..(j - 1) : \E n \in i..k : DigitVal(s[n]) # 0})

\* float() of the decimal n / d: the nearest double.
DecimalValue(n, d) == IF n = <<>> THEN Zero(1) ELSE RoundRatio(1, n, d, 0)

\* float(match.group(2)): the digits s[b..c-1], and the fraction s[c+1..d-1]
\* when d > c.  An integer part of more than MaxDigits digits is beyond the
\* largest double, and float() gives the infinity.
NumberValue(s, b, c, d) ==
    IF Significant(s, b, c) > MaxDigits THEN Inf
    ELSE IF d > c
    THEN DecimalValue(BAdd(BMul(DigitsValue(s, b, c), Pow10(d - c - 1)),
                           DigitsValue(s, c + 1, d)),
                      Pow10(d - c - 1))
    ELSE DecimalValue(DigitsValue(s, b, c), <<1>>)

NoMatch == [matched |-> FALSE, op |-> "", val |-> NaN]

\* \s*$ from d on, after the operator op and the number s[b..d-1] whose
\* integer part ends before c.
MatchEnd(s, op, b, c, d) ==
    IF op # "" /\ c > b /\ SkipSpaces(s, d) = Len(s) + 1
    THEN [matched |-> TRUE, op |-> op, val |-> NumberValue(s, b, c, d)]
    ELSE NoMatch

\* (\.\d+)? from c on; 46 is ".".
MatchFraction(s, op, b, c) ==
    MatchEnd(s, op, b, c,
             IF c <= Len(s) /\ s[c] = 46 /\ SkipDigits(s, c + 1) > c + 1
             THEN SkipDigits(s, c + 1) ELSE c)

\* \s*(\d+ from the end of the operator on.
MatchNumber(s, op, a) == MatchFraction(s, op, a, SkipDigits(s, a))

\* (>=|<=|>|<|==|=) at a.
MatchOperator(s, a) ==
    MatchNumber(s, OpAt(s, a), SkipSpaces(s, a + OpLen(OpAt(s, a))))

\* re.match(...): [matched, op, val], val = float(match.group(2)).
ParseCondition(condition) == MatchOperator(condition, SkipSpaces(condition, 1))

----------------------------------------------------------------------------
(* Tables.  A table is [columns, rows]: the set of its column names and    *)
(* the sequence of its rows, each row a function from the column names.    *)
(* The "Sku Id" and "Date" cells are strings, every other cell a number.   *)

RequiredColumns ==
    {"Sku Id", "Views", "Clicks", "Direct Units Sold", "Indirect Units Sold",
     "Total Revenue (Rs.)"}

OptionalColumns == {"ADDSPEND", "ROI", "Date"}

AllColumns == RequiredColumns \cup OptionalColumns

NoFile == [columns |-> {}, rows |-> <<>>]

\* df[name] = values: the column is added, or overwritten, row by row.
WithColumn(t, name, values) ==
    [columns |-> t.columns \cup {name},
     rows |-> [i \in DOMAIN t.rows |->
                 [c \in t.columns \cup {name} |->
                    IF c = name THEN values[i] ELSE t.rows[i][c]]]]

\* The rows of a table, as a set.
Rows(t) == {t.rows[i] : i \in DOMAIN t.rows}

\* df[mask]: the rows of t, in order, that are in keep.
SelectRows(t, keep) ==
    [columns |-> t.columns, rows |-> SelectSeq(t.rows, LAMBDA r : r \in keep)]

\* The cells of one column, as a sequence.
ColumnOf(rows, name) == [i \in DOMAIN rows |-> rows[i][name]]

SkuIdsOf(rows) == {rows[i]["Sku Id"] : i \in DOMAIN rows}

----------------------------------------------------------------------------
(* Step 3: ADDSPEND check (lines 21-27). *)

\* The lambda of line 24-25 on one row.
RowAddSpend(row) ==
    IF ~IsNaN(row["ROI"]) /\ ~IsZero(row["ROI"])
    THEN Div(row["Total Revenue (Rs.)"], row["ROI"])
    ELSE Num(0)

\* The lambda reads row["ROI"] first, and the revenue only when that ROI is
\* neither null nor 0: a KeyError for a column the upload does not have.
AddSpendRaises(t) ==
    \/ "ROI" \notin t.columns
    \/ /\ "Total Revenue (Rs.)" \notin t.columns
       /\ \E i \in DOMAIN t.rows :
            ~IsNaN(t.rows[i]["ROI"]) /\ ~IsZero(t.rows[i]["ROI"])

AddSpendMissing(t) == "ADDSPEND" \notin t.columns

AddSpendStep(t) ==
    IF AddSpendMissing(t)
    THEN WithColumn(t, "ADDSPEND", [i \in DOMAIN t.rows |-> RowAddSpend(t.rows[i])])
    ELSE t

----------------------------------------------------------------------------
(* Step 4: row-level Direct Revenue (lines 30-34). *)

RowTotalUnits(row) == Add(row["Direct Units Sold"], row["Indirect Units Sold"])

\* The lambda of lines 32-33 on one row that has "Total Units Sold".
RowDirectRevenue(row) ==
    IF Gt(row["Total Units Sold"], Num(0))
    THEN Mul(Div(row["Direct Units Sold"], row["Total Units Sold"]),
             row["Total Revenue (Rs.)"])
    ELSE Num(0)

RowLevelRaises(t) ==
    \/ "Direct Units Sold" \notin t.columns
    \/ "Indirect Units Sold" \notin t.columns
    \/ /\ "Total Revenue (Rs.)" \notin t.columns
       /\ \E i \in DOMAIN t.rows : Gt(RowTotalUnits(t.rows[i]), Num(0))

RowLevelStep(t) ==
    LET t1 == WithColumn(t, "Total Units Sold",
                         [i \in DOMAIN t.rows |-> RowTotalUnits(t.rows[i])])
    IN WithColumn(t1, "Direct Revenue",
                  [i \in DOMAIN t1.rows |-> RowDirectRevenue(t1.rows[i])])

----------------------------------------------------------------------------
(* Step 5: grouped aggregation and the group-level ratios (lines 37-55). *)

SummedColumns ==
    {"ADDSPEND", "Views", "Clicks", "Direct Units Sold", "Indirect Units Sold",
     "Total Revenue (Rs.)", "Direct Revenue"}

\* groupby(...).agg(...): a KeyError for a column the table does not have.
GroupByRaises(t) == ~((SummedColumns \cup {"Sku Id"}) \subseteq t.columns)

\* The Sku Ids the model draws from, in the sort order of groupby.
SkuOrder == <<"A", "B", "C">>

\* The rows of one group, in the table's order.
GroupRows(t, sku) == SelectSeq(t.rows, LAMBDA r : r["Sku Id"] = sku)

\* One group's sums: "sum" skips the null cells.
GroupSum(t, sku, name) == GroupSumSkipNa(ColumnOf(GroupRows(t, sku), name))

CTR(clicks, views) == Mul(ReplaceInf(Div(clicks, views)), Num(100))

ConversionRatePerSku(total_units, clicks) ==
    Div(total_units, Replace(clicks, Num(0), Num(1)))

ConversionRateDirectAdjusted(direct, clicks, indirect) ==
    Div(direct, Replace(Sub(clicks, indirect), Num(0), Num(1)))

ROI_Direct(direct_revenue, addspend) ==
    IF Gt(addspend, Num(0)) THEN Div(direct_revenue, addspend) ELSE Num(0)

AggColumns ==
    SummedColumns \cup
    {"Sku Id", "Total Units Sold", "CTR", "Conversion Rate per SKU",
     "Conversion Rate Direct Adjusted", "ROI_Direct"}

\* A plausible slip: Direct Revenue recomputed from the group's sums.
GroupDirectRevenueFromSums(t, sku) ==
    LET direct == GroupSum(t, sku, "Direct Units Sold")
        total == Add(direct, GroupSum(t, sku, "Indirect Units Sold"))
    IN IF Gt(total, Num(0))
       THEN Mul(Div(direct, total), GroupSum(t, sku, "Total Revenue (Rs.)"))
       ELSE Num(0)

\* "Direct Revenue": "sum" (line 44): the sum of the row-level values.
GroupDirectRevenue(t, sku) == GroupSum(t, sku, "Direct Revenue")

\* Lines 47-55 on one group: the row of the sums of lines 37-45 and the
\* columns derived from them.
DerivedRow(sku, addspend, views, clicks, direct, indirect, revenue, direct_revenue) ==
    [c \in AggColumns |->
       CASE c = "Sku Id" -> sku
         [] c = "ADDSPEND" -> addspend
         [] c = "Views" -> views
         [] c = "Clicks" -> clicks
         [] c = "Direct Units Sold" -> direct
         [] c = "Indirect Units Sold" -> indirect
         [] c = "Total Revenue (Rs.)" -> revenue
         [] c = "Direct Revenue" -> direct_revenue
         [] c = "Total Units Sold" -> Add(direct, indirect)
         [] c = "CTR" -> CTR(clicks, views)
         [] c = "Conversion Rate per SKU" ->
              ConversionRatePerSku(Add(direct, indirect), clicks)
         [] c = "Conversion Rate Direct Adjusted" ->
              ConversionRateDirectAdjusted(direct, clicks, indirect)
         [] c = "ROI_Direct" -> ROI_Direct(direct_revenue, addspend)]

\* Lines 37-55 on one group.
AggRow(t, sku) ==
    DerivedRow(sku, GroupSum(t, sku, "ADDSPEND"), GroupSum(t, sku, "Views"),
               GroupSum(t, sku, "Clicks"), GroupSum(t, sku, "Direct Units Sold"),
               GroupSum(t, sku, "Indirect Units Sold"),
               GroupSum(t, sku, "Total Revenue (Rs.)"), GroupDirectRevenue(t, sku))

\* One row per Sku Id of the table, sorted by Sku Id.
GroupedAggregation(t) ==
    LET skus == SelectSeq(SkuOrder, LAMBDA s : s \in SkuIdsOf(t.rows))
    IN [columns |-> AggColumns,
        rows |-> [i \in DOMAIN skus |-> AggRow(t, skus[i])]]

----------------------------------------------------------------------------
(* Step 7: apply filters (lines 75-103). *)

\* df.query(f"`{column}` {op} {val}") on one row.  "=" is no comparison in
\* a query expression but an assignment; see QueryRaises.
Compare(x, op, val) ==
    CASE op = ">" -> Gt(x, val)
      [] op = ">=" -> Ge(x, val)
      [] op = "<" -> Lt(x, val)
      [] op = "<=" -> Le(x, val)
      [] op = "==" -> Eq(x, val)
      [] OTHER -> FALSE

\* DataFrame.query evaluates with no assignment target, and the expression
\* "`column` = val" is an assignment: ValueError("cannot assign without a
\* target object").
QueryRaises(op) == op = "="

\* Lines 79-84 on the match m of line 78: the table returned, whether the
\* warning was shown, and whether df.query raised.
ApplyMatch(t, column, m) ==
    IF m.matched
    THEN IF QueryRaises(m.op)
         THEN [df |-> t, warned |-> FALSE, raised |-> TRUE]
         ELSE [df |-> SelectRows(t, {r \in Rows(t) : Compare(r[column], m.op, m.val)}),
               warned |-> FALSE, raised |-> FALSE]
    ELSE [df |-> t, warned |-> TRUE, raised |-> FALSE]

\* apply_condition(df, column, condition), lines 77-84.
apply_condition(t, column, condition) ==
    ApplyMatch(t, column, ParseCondition(condition))

\* filtered_df["Conversion Rate Direct Adjusted"] *= 100 (line 91).
ScaleConversionRate(t) ==
    WithColumn(t, "Conversion Rate Direct Adjusted",
               [i \in DOMAIN t.rows |->
                  Mul(t.rows[i]["Conversion Rate Direct Adjusted"], Num(100))])

\* The running result st = [df, screen, raised] after apply_condition
\* returned r for column.
AfterCondition(st, column, r) ==
    [df |-> r.df,
     screen |-> IF r.warned
                THEN Append(st.screen, [kind |-> "warning", about |-> column])
                ELSE st.screen,
     raised |-> r.raised]

\* One "if filter_x:" block of lines 86-96 on the running result st;
\* scale says whether the block is that of lines 90-92.
FilterBlock(st, condition, column, scale) ==
    IF st.raised \/ condition = <<>> THEN st
    ELSE AfterCondition(st, column,
             apply_condition(IF scale THEN ScaleConversionRate(st.df) ELSE st.df,
                             column, condition))

\* A plausible slip: the date compared with != instead of ==.
DateSkuIdsOffDate(t, date) ==
    {t.rows[i]["Sku Id"] : i \in {j \in DOMAIN t.rows : t.rows[j]["Date"] # date}}

\* Lines 100-103: the Sku Ids that have a raw row on the selected date.
DateSkuIds(t, date) ==
    {t.rows[i]["Sku Id"] : i \in {j \in DOMAIN t.rows : t.rows[j]["Date"] = date}}

\* Lines 65-69: the date in force; without a "Date" column it is "All".
EffectiveDate(t, date) == IF "Date" \in t.columns THEN date ELSE "All"

\* Lines 66-67 and 71-72: the options the two selection widgets offer.
DateOptions(t) ==
    IF "Date" \in t.columns
    THEN {"All"} \cup {t.rows[i]["Date"] : i \in DOMAIN t.rows}
    ELSE {"All"}

\* Lines 98-103: the Sku Id and the date selections.
SelectionFilter(t, raw, skus, date) ==
    LET t1 == IF skus # {}
              THEN SelectRows(t, {r \in Rows(t) : r["Sku Id"] \in skus})
              ELSE t
    IN IF EffectiveDate(raw, date) # "All"
       THEN SelectRows(t1, {r \in Rows(t1) : r["Sku Id"] \in DateSkuIds(raw, date)})
       ELSE t1

\* The five "if filter_x:" blocks of lines 86-96, in the script's order:
\* the text, the column, and whether the column is scaled first.
FilterBlocks(f) ==
    << <<f.clicks, "Clicks", FALSE>>,
       <<f.ctr, "CTR", FALSE>>,
       <<f.cr_direct, "Conversion Rate Direct Adjusted", TRUE>>,
       <<f.addspend, "ADDSPEND", FALSE>>,
       <<f.revenue, "Total Revenue (Rs.)", FALSE>> >>

\* The blocks from the i-th on, run one after the other on st.
RECURSIVE RunFilterBlocks(_, _, _)
RunFilterBlocks(st, blocks, i) ==
    IF i > Len(blocks) THEN st
    ELSE RunFilterBlocks(
             FilterBlock(st, blocks[i][1], blocks[i][2], blocks[i][3]), blocks, i + 1)

\* Lines 98-103 on the result s of the five blocks.
AfterBlocks(s, raw, skus, date) ==
    IF s.raised THEN s
    ELSE [s EXCEPT !.df = SelectionFilter(s.df, raw, skus, date)]

\* Lines 75-103 on the aggregated table; raw is df, f the five text inputs.
ApplyFilters(agg, raw, f, skus, date) ==
    AfterBlocks(RunFilterBlocks([df |-> agg, screen |-> <<>>, raised |-> FALSE],
                                FilterBlocks(f), 1),
                raw, skus, date)

----------------------------------------------------------------------------
(* Steps 8-12: KPI cards, formatting, table, charts (lines 106-172). *)

\* Lines 106-109: Series.sum() of four columns of the filtered table.
KpiTotals(t) ==
    [total_clicks |-> SumSkipNa(ColumnOf(t.rows, "Clicks")),
     total_views |-> SumSkipNa(ColumnOf(t.rows, "Views")),
     total_direct |-> SumSkipNa(ColumnOf(t.rows, "Direct Units Sold")),
     total_indirect |-> SumSkipNa(ColumnOf(t.rows, "Indirect Units Sold"))]

\* Line 111.
CtrOverall(total_clicks, total_views) ==
    IF Gt(total_views, Num(0))
    THEN Mul(Div(total_clicks, total_views), Num(100))
    ELSE Num(0)

\* Line 112; diff is total_clicks - total_indirect.
CrDirectAdj(total_direct, diff) ==
    IF Gt(diff, Num(0)) THEN Div(total_direct, diff) ELSE Num(0)

\* Lines 115-118: the texts of the four cards.
KpiMetrics(total_views, total_clicks, ctr_overall, cr_direct_adj) ==
    <<FormatInt(total_views), FormatInt(total_clicks), Format2(ctr_overall),
      FormatPercent2(cr_direct_adj)>>

KpiOf(k, ctr_overall, cr_direct_adj) ==
    [total_views |-> k.total_views, total_clicks |-> k.total_clicks,
     ctr_overall |-> ctr_overall, cr_direct_adj |-> cr_direct_adj,
     metrics |-> KpiMetrics(k.total_views, k.total_clicks, ctr_overall,
                            cr_direct_adj)]

KpiWith(k) ==
    KpiOf(k, CtrOverall(k.total_clicks, k.total_views),
          CrDirectAdj(k.total_direct, Sub(k.total_clicks, k.total_indirect)))

\* Lines 106-118: the totals, the two ratios and the four cards.
KpiCards(t) == KpiWith(KpiTotals(t))

\* int(x) of lines 115-116 raises for a NaN and for an infinity.
KpiRaises(t) ==
    IsSpecial(KpiTotals(t).total_views) \/ IsSpecial(KpiTotals(t).total_clicks)

\* The cards on the page when int(x) raises: the first, if it is the second
\* that raises.
KpiShownBeforeRaise(t) ==
    IF IsSpecial(KpiTotals(t).total_views) THEN <<>>
    ELSE <<[kind |-> "metric", about |-> "Total Views"]>>

\* Line 121 on one cell.
PercentRounded(x) == Round2(Mul(x, Num(100)))

\* Lines 121-122.
FormatPercent(t) ==
    LET t1 == WithColumn(t, "Conversion Rate per SKU",
                  [i \in DOMAIN t.rows |->
                     PercentRounded(t.rows[i]["Conversion Rate per SKU"])])
    IN WithColumn(t1, "Conversion Rate Direct Adjusted",
                  [i \in DOMAIN t1.rows |->
                     Round2(t1.rows[i]["Conversion Rate Direct Adjusted"])])

\* Lines 126-130.
selected_columns ==
    {"Sku Id", "ADDSPEND", "CTR", "Conversion Rate per SKU", "Direct Units Sold",
     "Views", "Clicks", "Indirect Units Sold", "Total Revenue (Rs.)",
     "Direct Revenue", "ROI_Direct", "Conversion Rate Direct Adjusted"}

\* filtered_df[selected_columns].
Project(t, cols) ==
    [columns |-> cols,
     rows |-> [i \in DOMAIN t.rows |-> [c \in cols |-> t.rows[i][c]]]]

\* Lines 135 and 155: both charts plot the rows with direct units sold.
ChartRows(t) == SelectRows(t, {r \in Rows(t) : Gt(r["Direct Units Sold"], Num(0))})

\* What steps 8-12 put on the page, in order.
RenderScreen(t) ==
    LET chart(about) ==
            IF ChartRows(t).rows # <<>>
            THEN [kind |-> "plotly_chart", about |-> about]
            ELSE [kind |-> "info", about |-> about]
    IN << [kind |-> "metric", about |-> "Total Views"],
          [kind |-> "metric", about |-> "Total Clicks"],
          [kind |-> "metric", about |-> "CTR Overall (%)"],
          [kind |-> "metric", about |-> "Conversion Rate Direct Unit"],
          [kind |-> "dataframe", about |-> "Aggregated Campaign Table"],
          chart("ROI_Direct"),
          chart("ADDSPEND") >>

----------------------------------------------------------------------------
(* The inputs the model draws from. *)

\* The most rows of an upload drawn from CampaignRows.
MaxRows == 2

\* The most columns an upload of MissingColumnFiles lacks.
MaxMissing == 2

\* The most sidebar controls that are off their default at the same time.
MaxActive == 2

Row(sku, date, views, clicks, direct, indirect, revenue, addspend, roi) ==
    [c \in AllColumns |->
       CASE c = "Sku Id" -> sku
         [] c = "Date" -> date
         [] c = "Views" -> views
         [] c = "Clicks" -> clicks
         [] c = "Direct Units Sold" -> direct
         [] c = "Indirect Units Sold" -> indirect
         [] c = "Total Revenue (Rs.)" -> revenue
         [] c = "ADDSPEND" -> addspend
         [] c = "ROI" -> roi]

\* An upload without the columns of missing.
DropColumns(t, missing) == Project(t, t.columns \ missing)

\* Views and Clicks of a raw row; a null cell is NaN.
TrafficProfiles ==
    { <<Num(0), Num(0)>>, <<Num(0), Num(2)>>, <<Num(1000), Num(7)>>, <<NaN, NaN>> }

\* Direct units, indirect units, revenue, ad spend and ROI of a raw row.
SalesProfiles ==
    { <<Num(0), Num(0), Num(100), Num(0), Num(0)>>,
      <<Num(1), Num(0), Num(100), Num(50), Num(2)>>,
      <<Num(7), Num(3), Num(90), Num(20), Num(15)>> }

CampaignRows ==
    { Row(sku, "d1", t[1], t[2], s[1], s[2], s[3], s[4], s[5]) :
        sku \in {"A", "B"}, t \in TrafficProfiles, s \in SalesProfiles }

RECURSIVE SeqsUpTo(_, _)
SeqsUpTo(S, n) ==
    IF n = 0 THEN {<<>>}
    ELSE LET shorter == SeqsUpTo(S, n - 1)
         IN shorter \cup {Append(q, x) : q \in shorter, x \in S}

\* Complete uploads of one to MaxRows rows.
CompleteFiles ==
    {[columns |-> AllColumns, rows |-> q] : q \in SeqsUpTo(CampaignRows, MaxRows) \ {<<>>}}

\* The scenario of the specification's section 8, and a second Sku Id.
ScenarioRows ==
    << Row("A", "d1", Num(100), Num(10), Num(2), Num(1), Num(300), Num(50), Num(6)),
       Row("A", "d2", Num(50), Num(5), Num(1), Num(0), Num(100), Num(20), Num(5)),
       Row("B", "d2", Num(200), Num(2), Num(1), Num(3), Num(100), Num(0), Num(0)),
       Row("C", "d1", Num(0), Num(0), Num(0), Num(0), Num(0), Num(0), Num(0)) >>

ScenarioFile == [columns |-> AllColumns, rows |-> ScenarioRows]

\* The scenario without up to MaxMissing of its columns.
MissingColumnFiles ==
    {DropColumns(ScenarioFile, m) :
        m \in {x \in SUBSET AllColumns : Cardinality(x) \in 1..MaxMissing}}

\* The uploads of the aggregation runs.
CampaignFiles == CompleteFiles \cup MissingColumnFiles

\* The uploads of the dashboard runs: the scenario; the scenario with
\* neither "ADDSPEND" nor "Date"; the scenario without "Views".
DashboardFiles ==
    { ScenarioFile,
      DropColumns(ScenarioFile, {"ADDSPEND", "Date"}),
      DropColumns(ScenarioFile, {"Views"}) }

\* What the user types into a threshold input, besides leaving it blank.
TextInputs ==
    { <<97, 98, 99>>,               \* "abc"
      <<62, 160, 49>>,              \* ">", a no-break space, "1"
      <<62, 61, 50, 46, 53>>,       \* ">=2.5"
      <<60, 32, 49, 48, 48>>,       \* "< 100"
      <<60, 61, 48>>,               \* "<=0"
      <<61, 61, 1633, 1632>>,       \* "==" and the Arabic-Indic digits of 10
      <<61, 49, 48, 48>> }          \* "=100"

----------------------------------------------------------------------------
(* The session. *)

VARIABLES
    uploaded_file,      \* the upload, NoFile before the first one
    filter_clicks, filter_ctr, filter_cr_direct, filter_addspend,
    filter_revenue,     \* the five threshold inputs, <<>> when blank
    selected_skus,      \* the multiselect, {} when nothing is selected
    selected_date,      \* the selectbox, "All" by default
    pc,                 \* where the pass is
    df,                 \* the raw rows with the row-level columns
    agg_df,             \* the aggregated table
    filtered_df,        \* the filtered table, after step 7
    kpi,                \* the four KPI cards
    table,              \* the table shown, after step 9
    screen              \* the messages and elements shown, in order

inputs ==
    <<uploaded_file, filter_clicks, filter_ctr, filter_cr_direct, filter_addspend,
      filter_revenue, selected_skus, selected_date>>

outputs == <<df, agg_df, filtered_df, kpi, table, screen>>

vars == <<inputs, pc, outputs>>

NoKpi ==
    [total_views |-> NaN, total_clicks |-> NaN, ctr_overall |-> NaN,
     cr_direct_adj |-> NaN, metrics |-> <<>>]

ErrorMessage == [kind |-> "error", about |-> "Error"]

Filters ==
    [clicks |-> filter_clicks, ctr |-> filter_ctr, cr_direct |-> filter_cr_direct,
     addspend |-> filter_addspend, revenue |-> filter_revenue]

Init ==
    /\ uploaded_file = NoFile
    /\ filter_clicks = <<>> /\ filter_ctr = <<>> /\ filter_cr_direct = <<>>
    /\ filter_addspend = <<>> /\ filter_revenue = <<>>
    /\ selected_skus = {}
    /\ selected_date = "All"
    /\ pc = "idle"
    /\ df = NoFile /\ agg_df = NoFile /\ filtered_df = NoFile /\ table = NoFile
    /\ kpi = NoKpi
    /\ screen = <<>>

\* The script starts over: nothing of the last pass stays on the page.
Rerun ==
    /\ pc' = "ingest"
    /\ df' = NoFile /\ agg_df' = NoFile /\ filtered_df' = NoFile /\ table' = NoFile
    /\ kpi' = NoKpi
    /\ screen' = <<>>

PassOver == pc \in {"idle", "done", "error"}

\* The sidebar was drawn in the last pass (steps 1-6 went through).
SidebarShown == pc = "done" \/ (pc = "error" /\ agg_df # NoFile)

\* The controls that are off their default.
ActiveCount(texts, skus, date) ==
    Cardinality({i \in DOMAIN texts : texts[i] # <<>>})
    + (IF skus # {} THEN 1 ELSE 0) + (IF date # "All" THEN 1 ELSE 0)

\* Line 10: the user uploads a file into the empty uploader, and the script
\* runs on it.
UploadFile(files) ==
    /\ pc = "idle"
    /\ \E f \in files : uploaded_file' = f
    /\ UNCHANGED <<filter_clicks, filter_ctr, filter_cr_direct, filter_addspend,
                   filter_revenue, selected_skus, selected_date>>
    /\ Rerun

\* Lines 10-12: the user removes the upload.  The script runs with no file:
\* it draws the uploader alone, and the sidebar controls, not drawn, lose
\* their values.
RemoveFile ==
    /\ pc \in {"done", "error"}
    /\ uploaded_file' = NoFile
    /\ filter_clicks' = <<>> /\ filter_ctr' = <<>> /\ filter_cr_direct' = <<>>
    /\ filter_addspend' = <<>> /\ filter_revenue' = <<>>
    /\ selected_skus' = {}
    /\ selected_date' = "All"
    /\ pc' = "idle"
    /\ df' = NoFile /\ agg_df' = NoFile /\ filtered_df' = NoFile /\ table' = NoFile
    /\ kpi' = NoKpi
    /\ screen' = <<>>

\* Lines 59-63: the user edits one threshold input.
SetFilterClicks ==
    /\ SidebarShown
    /\ \E v \in TextInputs \cup {<<>>} :
         /\ ActiveCount(<<v, filter_ctr, filter_cr_direct, filter_addspend,
                          filter_revenue>>, selected_skus, selected_date) <= MaxActive
         /\ filter_clicks' = v
    /\ UNCHANGED <<uploaded_file, filter_ctr, filter_cr_direct, filter_addspend,
                   filter_revenue, selected_skus, selected_date>>
    /\ Rerun

SetFilterCtr ==
    /\ SidebarShown
    /\ \E v \in TextInputs \cup {<<>>} :
         /\ ActiveCount(<<filter_clicks, v, filter_cr_direct, filter_addspend,
                          filter_revenue>>, selected_skus, selected_date) <= MaxActive
         /\ filter_ctr' = v
    /\ UNCHANGED <<uploaded_file, filter_clicks, filter_cr_direct, filter_addspend,
                   filter_revenue, selected_skus, selected_date>>
    /\ Rerun

SetFilterCrDirect ==
    /\ SidebarShown
    /\ \E v \in TextInputs \cup {<<>>} :
         /\ ActiveCount(<<filter_clicks, filter_ctr, v, filter_addspend,
                          filter_revenue>>, selected_skus, selected_date) <= MaxActive
         /\ filter_cr_direct' = v
    /\ UNCHANGED <<uploaded_file, filter_clicks, filter_ctr, filter_addspend,
                   filter_revenue, selected_skus, selected_date>>
    /\ Rerun

SetFilterAddspend ==
    /\ SidebarShown
    /\ \E v \in TextInputs \cup {<<>>} :
         /\ ActiveCount(<<filter_clicks, filter_ctr, filter_cr_direct, v,
                          filter_revenue>>, selected_skus, selected_date) <= MaxActive
         /\ filter_addspend' = v
    /\ UNCHANGED <<uploaded_file, filter_clicks, filter_ctr, filter_cr_direct,
                   filter_revenue, selected_skus, selected_date>>
    /\ Rerun

SetFilterRevenue ==
    /\ SidebarShown
    /\ \E v \in TextInputs \cup {<<>>} :
         /\ ActiveCount(<<filter_clicks, filter_ctr, filter_cr_direct, filter_addspend,
                          v>>, selected_skus, selected_date) <= MaxActive
         /\ filter_revenue' = v
    /\ UNCHANGED <<uploaded_file, filter_clicks, filter_ctr, filter_cr_direct,
                   filter_addspend, selected_skus, selected_date>>
    /\ Rerun

\* Lines 71-72: the user picks Sku Ids among those of the aggregated table.
SelectSkus ==
    /\ SidebarShown
    /\ \E s \in SUBSET SkuIdsOf(agg_df.rows) :
         /\ ActiveCount(<<filter_clicks, filter_ctr, filter_cr_direct, filter_addspend,
                          filter_revenue>>, s, selected_date) <= MaxActive
         /\ selected_skus' = s
    /\ UNCHANGED <<uploaded_file, filter_clicks, filter_ctr, filter_cr_direct,
                   filter_addspend, filter_revenue, selected_date>>
    /\ Rerun

\* Lines 65-67: the user picks a date among those of the upload.
SelectDate ==
    /\ SidebarShown
    /\ \E d \in DateOptions(df) :
         /\ ActiveCount(<<filter_clicks, filter_ctr, filter_cr_direct, filter_addspend,
                          filter_revenue>>, selected_skus, d) <= MaxActive
         /\ selected_date' = d
    /\ UNCHANGED <<uploaded_file, filter_clicks, filter_ctr, filter_cr_direct,
                   filter_addspend, filter_revenue, selected_skus>>
    /\ Rerun

\* Lines 174-175: the pass ends with the error message under what it had
\* already put on the page.
Except(shown) ==
    /\ pc' = "error"
    /\ screen' = Append(shown, ErrorMessage)

AddSpendWarning == [kind |-> "warning", about |-> "ADDSPEND"]

\* Steps 2-5 (lines 15-55): read, ADDSPEND check, row-level Direct Revenue,
\* grouped aggregation.
Ingest ==
    /\ pc = "ingest"
    /\ LET shown == IF AddSpendMissing(uploaded_file)
                    THEN Append(screen, AddSpendWarning) ELSE screen
           t3 == AddSpendStep(uploaded_file)
           t4 == RowLevelStep(t3)
       IN IF AddSpendMissing(uploaded_file) /\ AddSpendRaises(uploaded_file)
          THEN Except(shown) /\ UNCHANGED <<df, agg_df>>
          ELSE IF RowLevelRaises(t3)
          THEN Except(shown) /\ UNCHANGED <<df, agg_df>>
          ELSE IF GroupByRaises(t4)
          THEN Except(shown) /\ UNCHANGED <<df, agg_df>>
          ELSE /\ df' = t4
               /\ agg_df' = GroupedAggregation(t4)
               /\ screen' = shown
               /\ pc' = "filter"
    /\ UNCHANGED <<inputs, filtered_df, kpi, table>>

\* The end of steps 6-7 with the result r of the filters.
FilterDone(r) ==
    IF r.raised
    THEN Except(screen \o r.screen) /\ UNCHANGED filtered_df
    ELSE /\ filtered_df' = r.df
         /\ screen' = screen \o r.screen
         /\ pc' = "render"

\* Steps 6-7 (lines 58-103): the sidebar and the filters.
Filter ==
    /\ pc = "filter"
    /\ FilterDone(ApplyFilters(agg_df, df, Filters, selected_skus, selected_date))
    /\ UNCHANGED <<inputs, df, agg_df, kpi, table>>

\* Steps 8-12 (lines 106-172): KPI cards, formatting, table, charts.
Render ==
    /\ pc = "render"
    /\ IF KpiRaises(filtered_df)
       THEN /\ Except(screen \o KpiShownBeforeRaise(filtered_df))
            /\ UNCHANGED <<kpi, table>>
       ELSE /\ kpi' = KpiCards(filtered_df)
            /\ table' = Project(FormatPercent(filtered_df), selected_columns)
            /\ screen' = screen \o RenderScreen(filtered_df)
            /\ pc' = "done"
    /\ UNCHANGED <<inputs, df, agg_df, filtered_df>>

Pass == Ingest \/ Filter \/ Render

\* The dashboard: uploads of DashboardFiles and every sidebar control.
Next ==
    \/ UploadFile(DashboardFiles)
    \/ RemoveFile
    \/ SetFilterClicks \/ SetFilterCtr \/ SetFilterCrDirect
    \/ SetFilterAddspend \/ SetFilterRevenue
    \/ SelectSkus \/ SelectDate
    \/ Pass

Spec == Init /\ [][Next]_vars

\* The aggregation: uploads of CampaignFiles, the sidebar left alone.
NextAgg == UploadFile(CampaignFiles) \/ RemoveFile \/ Pass

SpecAgg == Init /\ [][NextAgg]_vars

----------------------------------------------------------------------------
(* Properties. *)

\* The aggregated table of this pass exists (steps 2-5 went through).
Aggregated == agg_df # NoFile

\* The filtered table of this pass exists (step 7 went through).
Filtered == pc \in {"render", "done"}

\* The raw rows of one Sku Id in the upload, and a sum over them with a
\* null cell counted as 0.  Sums, products and quotients are float64, the
\* terms taken in the order the script takes them.
RawRows(sku) == SelectSeq(uploaded_file.rows, LAMBDA r : r["Sku Id"] = sku)

RawSum(sku, name) == GroupSumSkipNa(ColumnOf(RawRows(sku), name))

\* The aggregated row of one Sku Id.
AggRowOf(sku) == CHOOSE r \in Rows(agg_df) : r["Sku Id"] = sku

FilterColumns ==
    {"Clicks", "CTR", "Conversion Rate Direct Adjusted", "ADDSPEND",
     "Total Revenue (Rs.)"}

\* The text typed for one filterable column.
TextOf(column) ==
    CASE column = "Clicks" -> filter_clicks
      [] column = "CTR" -> filter_ctr
      [] column = "Conversion Rate Direct Adjusted" -> filter_cr_direct
      [] column = "ADDSPEND" -> filter_addspend
      [] column = "Total Revenue (Rs.)" -> filter_revenue

\* The five texts with the one of column left blank.
FiltersWithout(column) ==
    [clicks |-> IF column = "Clicks" THEN <<>> ELSE filter_clicks,
     ctr |-> IF column = "CTR" THEN <<>> ELSE filter_ctr,
     cr_direct |-> IF column = "Conversion Rate Direct Adjusted"
                   THEN <<>> ELSE filter_cr_direct,
     addspend |-> IF column = "ADDSPEND" THEN <<>> ELSE filter_addspend,
     revenue |-> IF column = "Total Revenue (Rs.)" THEN <<>> ELSE filter_revenue]

Malformed(column) == TextOf(column) # <<>> /\ ~ParseCondition(TextOf(column)).matched

WellFormed(column) == TextOf(column) # <<>> /\ ParseCondition(TextOf(column)).matched

\* A comparison as the specification reads it: "=" and "==" are equality.
Holds(x, op, val) ==
    CASE op = ">" -> Gt(x, val)
      [] op = ">=" -> Ge(x, val)
      [] op = "<" -> Lt(x, val)
      [] op = "<=" -> Le(x, val)
      [] op \in {"==", "="} -> Eq(x, val)

\* The value a condition on column compares: the aggregated value, and for
\* the adjusted conversion rate its percentage (value x 100).
Compared(r, column) ==
    IF column = "Conversion Rate Direct Adjusted"
    THEN Mul(r[column], Num(100)) ELSE r[column]

\* The aggregated row r satisfies the condition typed for column.
Satisfies(r, column) ==
    Holds(Compared(r, column), ParseCondition(TextOf(column)).op,
          ParseCondition(TextOf(column)).val)

\* The Sku Ids with a raw row on the date.
SkusOnDate(date) ==
    {r["Sku Id"] : r \in {x \in Rows(uploaded_file) : x["Date"] = date}}

DateActive == "Date" \in uploaded_file.columns /\ selected_date # "All"

\* The aggregated row r satisfies every active condition and selection.
SatisfiesAll(r) ==
    /\ \A c \in FilterColumns : WellFormed(c) => Satisfies(r, c)
    /\ selected_skus # {} => r["Sku Id"] \in selected_skus
    /\ DateActive => r["Sku Id"] \in SkusOnDate(selected_date)

NothingActive ==
    /\ \A c \in FilterColumns : TextOf(c) = <<>>
    /\ selected_skus = {}
    /\ ~DateActive

Shown(kind, about) == \E i \in DOMAIN screen : screen[i] = [kind |-> kind, about |-> about]

\* C1: every aggregated row with Views = 0 has CTR exactly 0, whatever its
\* Clicks; with Views > 0 its CTR is Clicks / Views * 100; the CTR is never
\* undefined.
C1_CtrZeroWithoutViews ==
    Aggregated =>
        \A r \in Rows(agg_df) :
            /\ ~IsNaN(r["CTR"])
            /\ Eq(r["Views"], Num(0)) => r["CTR"] = Num(0)
            /\ Gt(r["Views"], Num(0)) =>
                   r["CTR"] = Mul(Div(r["Clicks"], r["Views"]), Num(100))

\* C2: every aggregated row has ConversionRateDirectAdjusted =
\* DirectUnitsSold / d, where d = Clicks - IndirectUnitsSold when that is
\* > 0 and d = 1 when it is <= 0; so the value is never negative.
C2_AdjustedDenominatorFloor ==
    Aggregated =>
        \A r \in Rows(agg_df) :
            LET diff == Sub(r["Clicks"], r["Indirect Units Sold"])
                d == IF Gt(diff, Num(0)) THEN diff ELSE Num(1)
            IN /\ r["Conversion Rate Direct Adjusted"] =
                      Div(r["Direct Units Sold"], d)
               /\ Ge(r["Conversion Rate Direct Adjusted"], Num(0))

\* C3: a non-blank malformed text for one of the five filterable columns
\* shows a warning naming the column, and the filtered table is the one
\* obtained with that text left blank and everything else unchanged.
C3_MalformedFilterIgnored ==
    Filtered =>
        \A c \in FilterColumns :
            Malformed(c) =>
                /\ Shown("warning", c)
                /\ filtered_df =
                       ApplyFilters(agg_df, df, FiltersWithout(c), selected_skus,
                                    selected_date).df

\* C4: with well-formed conditions only, the pass ends rendered, an
\* aggregated row is in the output iff it satisfies every active condition
\* and selection, and with nothing active the output is the aggregated
\* table.
C4_FiltersAreAConjunction ==
    (Aggregated /\ pc \in {"done", "error"} /\ \A c \in FilterColumns : ~Malformed(c)) =>
        /\ pc = "done"
        /\ SkuIdsOf(filtered_df.rows) =
               {r["Sku Id"] : r \in {x \in Rows(agg_df) : SatisfiesAll(x)}}
        /\ NothingActive => filtered_df = agg_df

\* C5: the filters only select: every row of the filtered table is, field
\* for field, the aggregated row of its Sku Id, and the rows keep the
\* aggregated table's order.
C5_FiltersOnlySelect ==
    Filtered =>
        filtered_df =
            SelectRows(agg_df,
                {r \in Rows(agg_df) : r["Sku Id"] \in SkuIdsOf(filtered_df.rows)})

\* C6: every accepted expression, whichever of the six operators it uses,
\* is applied as a comparison: the pass ends rendered, never in the error
\* state, and every row shown satisfies the comparison.
C6_EveryOperatorCompares ==
    (Aggregated /\ pc \in {"done", "error"}) =>
        \A c \in FilterColumns :
            WellFormed(c) =>
                /\ pc = "done"
                /\ \A r \in Rows(filtered_df) : Satisfies(AggRowOf(r["Sku Id"]), c)

\* The share of a raw row's revenue that its direct units earn.
RawDirectRevenue(r) ==
    IF Gt(Add(r["Direct Units Sold"], r["Indirect Units Sold"]), Num(0))
    THEN Mul(Div(r["Direct Units Sold"],
                 Add(r["Direct Units Sold"], r["Indirect Units Sold"])),
             r["Total Revenue (Rs.)"])
    ELSE Num(0)

RawDirectRevenueSum(sku) ==
    GroupSumSkipNa([i \in DOMAIN RawRows(sku) |-> RawDirectRevenue(RawRows(sku)[i])])

\* The same share taken from the sums of a Sku Id instead.
PooledDirectRevenue(sku) ==
    IF Gt(Add(RawSum(sku, "Direct Units Sold"), RawSum(sku, "Indirect Units Sold")),
          Num(0))
    THEN Mul(Div(RawSum(sku, "Direct Units Sold"),
                 Add(RawSum(sku, "Direct Units Sold"),
                     RawSum(sku, "Indirect Units Sold"))),
             RawSum(sku, "Total Revenue (Rs.)"))
    ELSE Num(0)

\* C7: the aggregated DirectRevenue of a Sku Id is the sum over its raw
\* rows of revenue * direct / (direct + indirect), or 0 for a row without
\* units; a row without units contributes exactly 0.
C7_DirectRevenueSummedPerRow ==
    Aggregated =>
        /\ \A r \in Rows(agg_df) :
               r["Direct Revenue"] = RawDirectRevenueSum(r["Sku Id"])
        /\ \A r \in Rows(df) :
               Eq(r["Total Units Sold"], Num(0)) => r["Direct Revenue"] = Num(0)

\* C7's case: a Sku Id of two raw rows, one of them without units, whose
\* summed per-row value differs from the value pooled from its sums.
C7_Witness ==
    /\ pc = "done"
    /\ \E r \in Rows(agg_df) :
          /\ Len(RawRows(r["Sku Id"])) = 2
          /\ \E x \in Rows(df) :
                /\ x["Sku Id"] = r["Sku Id"]
                /\ Eq(x["Total Units Sold"], Num(0))
          /\ Gt(r["Direct Revenue"], Num(0))
          /\ r["Direct Revenue"] # PooledDirectRevenue(r["Sku Id"])

SummedFields ==
    {"Views", "Clicks", "Direct Units Sold", "Indirect Units Sold",
     "Total Revenue (Rs.)", "ADDSPEND"}

\* C8: one aggregated row per Sku Id of the raw rows; each summed field is
\* the sum over the Sku Id's raw rows with a null counted as 0; no sum and
\* no field derived from the sums is undefined.
C8_OneRowPerSkuWithSums ==
    (Aggregated /\ "ADDSPEND" \in uploaded_file.columns) =>
        /\ SkuIdsOf(agg_df.rows) = SkuIdsOf(uploaded_file.rows)
        /\ Len(agg_df.rows) = Cardinality(SkuIdsOf(uploaded_file.rows))
        /\ \A r \in Rows(agg_df) :
              /\ \A c \in SummedFields : r[c] = RawSum(r["Sku Id"], c)
              /\ \A c \in AggColumns \ {"Sku Id"} : ~IsNaN(r[c])

\* C9: an upload that lacks a required column ends the pass in the error
\* state, and a pass that fails during parsing or aggregation shows the
\* error message and nothing else.
C9_IngestionErrorShowsOnlyTheError ==
    /\ (PassOver /\ uploaded_file # NoFile /\ ~(RequiredColumns \subseteq uploaded_file.columns))
           => pc = "error"
    /\ (pc = "error" /\ ~Aggregated) => screen = <<ErrorMessage>>

\* C10: with a date selected, the rows retained are those of the Sku Ids
\* with a raw row on that date among the rows the other filters keep, and
\* the fields of a retained row, and the KPI totals, are taken over all raw
\* rows of the Sku Id, whatever their date.
C10_DateSelectsSkus ==
    (Filtered /\ DateActive) =>
        /\ SkuIdsOf(filtered_df.rows) =
               SkuIdsOf(ApplyFilters(agg_df, df, Filters, selected_skus, "All").df.rows)
               \cap SkusOnDate(selected_date)
        /\ \A r \in Rows(filtered_df) :
              /\ \A c \in SummedFields : r[c] = RawSum(r["Sku Id"], c)
              /\ r["Direct Revenue"] = RawDirectRevenueSum(r["Sku Id"])
              /\ r["CTR"] = CTR(RawSum(r["Sku Id"], "Clicks"), RawSum(r["Sku Id"], "Views"))
        /\ pc = "done" =>
              /\ kpi.total_views =
                     SumSkipNa([i \in DOMAIN filtered_df.rows |->
                                  RawSum(filtered_df.rows[i]["Sku Id"], "Views")])
              /\ kpi.total_clicks =
                     SumSkipNa([i \in DOMAIN filtered_df.rows |->
                                  RawSum(filtered_df.rows[i]["Sku Id"], "Clicks")])

\* C10's case: a date is selected, a retained Sku Id has raw rows on another
\* date too, and a Sku Id without a row on the date is left out.
C10_Witness ==
    /\ pc = "done"
    /\ DateActive
    /\ \E r \in Rows(filtered_df) :
          \E x \in Rows(uploaded_file) :
              x["Sku Id"] = r["Sku Id"] /\ x["Date"] # selected_date
    /\ SkuIdsOf(filtered_df.rows) # SkuIdsOf(agg_df.rows)
    /\ kpi.total_views # Num(0)

====
